---- MODULE Spec2Model ----
(***************************************************************************)
(* Model of the auth-service / file-service pair of the repository.        *)
(*                                                                         *)
(* The file service (upload, download-URL issuance, soft delete) is        *)
(* modelled request by request: every request occupies a slot of `req`     *)
(* and advances one await at a time, so that requests interleave exactly   *)
(* where the Node.js event loop lets them.  The metadata store (`files`),  *)
(* the object store (`objects`) and the credential store (`users`) are     *)
(* the shared state.  Token verification is a pure function of the token   *)
(* and the clock `now`.                                                    *)
(*                                                                         *)
(* The specifications share the variables:                                 *)
(*   Spec        the file service's three mutating endpoints, interleaved  *)
(*   SpecUpload  uploads with every filename shape, and deletes            *)
(*   SpecInput   uploads and registrations, the requests that validate     *)
(*               their input                                               *)
(*   SpecToken   the clock and the middleware chains of the routes         *)
(*   SpecRepo    the FileRepository methods called one at a time           *)
(*   SpecAuth    register, login, profile and refresh                      *)
(*   SpecSize    uploads with body sizes around the size limit             *)
(*   SpecPassword  registrations with passwords around each strength rule  *)
(*   SpecIssue   the token generators beside a sub-second clock            *)
(*   SpecList    the file list beside repository writes and the clock      *)
(*   SpecLocal   the route that serves files of the local directory        *)
(*   SpecHeader  authenticateToken on every shape of Authorization header  *)
(*   SpecTimeout uploads and unrouted requests beside the response timer   *)
(*   SpecFrame   every file endpoint, one repository call per step         *)
(***************************************************************************)
EXTENDS Integers, Sequences, FiniteSets, TLC

(* ------------------------------ bounds --------------------------------- *)
MaxReqs == 2
MaxFiles == 2
MaxUuid == 1
MaxTime == 1
MaxDownloads == 2
SubTicks == 2
MaxListers == 1

(* ------------------------- program constants --------------------------- *)
MaxFileSize == 52428800
RawBodyLimit == 52428800
FilenameMaxLength == 255
SchemaSizeMin == 1
SchemaSizeMax == 52428800
PasswordMinLength == 6
PasswordMaxLength == 128
ListLimitMax == 100
DefaultLimit == 50

Reqs == 1..MaxReqs
UserIds == {"u1", "u2"}
\* a userId the client puts in the query string of a request, "" when it puts none
QueryUserIds == {""} \cup UserIds

(* ------------------------------ responses ------------------------------ *)
R(status, code, message) == [status |-> status, code |-> code, message |-> message]
NoResp == R(0, "", "")

(* ------------------------------- tokens -------------------------------- *)
JwtSecret == "secret"
\* the value of `nbf` in a payload that carries none
NoNbf == -1
TokenTypes == {"access_token", "refresh_token"}
Tokens == [userId : UserIds, type : TokenTypes, exp : 1..(MaxTime + 1),
           sig : {JwtSecret, "other"}, nbf : {NoNbf, 1}]
AnyToken == CHOOSE t \in Tokens : TRUE
Headers == {[present |-> FALSE, token |-> AnyToken]}
             \cup {[present |-> TRUE, token |-> t] : t \in Tokens}

\* jsonwebtoken's verify: signature first, then not-before, then expiry.
JwtVerify(token, t) ==
  IF token.sig # JwtSecret THEN "JsonWebTokenError"
  ELSE IF token.nbf # NoNbf /\ token.nbf > t THEN "NotBeforeError"
  ELSE IF t >= token.exp THEN "TokenExpiredError"
  ELSE "ok"

VerifyTokenExpiryInclusive(token, t) ==
  LET e == IF token.sig # JwtSecret THEN "JsonWebTokenError"
           ELSE IF token.nbf # NoNbf /\ token.nbf > t THEN "NotBeforeError"
           ELSE IF t > token.exp THEN "TokenExpiredError"
           ELSE "ok"
  IN  CASE e = "ok" -> [ok |-> TRUE, error |-> ""]
        [] e = "TokenExpiredError" -> [ok |-> FALSE, error |-> "Token has expired"]
        [] e = "JsonWebTokenError" -> [ok |-> FALSE, error |-> "Invalid token"]
        [] OTHER -> [ok |-> FALSE, error |-> "Token not active yet"]

\* JWTUtils.verifyToken: the decoded payload, or the error message it throws.
VerifyToken(token, t) ==
  LET e == JwtVerify(token, t)
  IN  CASE e = "ok" -> [ok |-> TRUE, error |-> ""]
        [] e = "TokenExpiredError" -> [ok |-> FALSE, error |-> "Token has expired"]
        [] e = "JsonWebTokenError" -> [ok |-> FALSE, error |-> "Invalid token"]
        [] OTHER -> [ok |-> FALSE, error |-> "Token not active yet"]

\* authenticateToken middleware: req.user on success, the 401 response otherwise.
AuthenticateToken(header, t) ==
  IF ~header.present
  THEN [ok |-> FALSE, userId |-> "", tokenType |-> "",
        resp |-> R(401, "MISSING_AUTH_HEADER", "Authorization header is required")]
  ELSE LET v == VerifyToken(header.token, t)
       IN  IF v.ok
           THEN [ok |-> TRUE, userId |-> header.token.userId,
                 tokenType |-> header.token.type, resp |-> NoResp]
           ELSE [ok |-> FALSE, userId |-> "", tokenType |-> "",
                 resp |-> CASE v.error = "Token has expired"
                                 -> R(401, "TOKEN_EXPIRED", "Token has expired")
                            [] v.error = "Invalid token"
                                 -> R(401, "INVALID_TOKEN", "Invalid token format")
                            [] OTHER
                                 -> R(401, "TOKEN_NOT_ACTIVE", "Token is not active yet")]

\* requireTokenType(requiredType) of the auth service's middleware: the 401 it
\* answers when req.user.tokenType differs, NoResp when it calls next().
RequireTokenType(tokenType, requiredType) ==
  IF tokenType # requiredType
  THEN R(401, "INVALID_TOKEN_TYPE",
         IF requiredType = "refresh_token" THEN "refresh_token required"
         ELSE "access_token required")
  ELSE NoResp

(* ------------------------------- routes -------------------------------- *)
FileEndpoints == {"POST /upload", "GET /file/:id", "GET /files", "DELETE /file/:id"}
AuthEndpoints == {"GET /me", "POST /refresh"}
Endpoints == FileEndpoints \cup AuthEndpoints

\* The middleware chain mounted in front of a route's controller: whether the
\* controller is entered, and the response sent when it is not.
RouteChain(endpoint, header, t) ==
  LET a == AuthenticateToken(header, t)
      k == IF endpoint = "POST /refresh"
           THEN RequireTokenType(a.tokenType, "refresh_token")
           ELSE NoResp
  IN  IF ~a.ok THEN [entered |-> FALSE, resp |-> a.resp]
      ELSE IF k # NoResp THEN [entered |-> FALSE, resp |-> k]
      ELSE [entered |-> TRUE, resp |-> NoResp]

(* ------------------------------ filenames ------------------------------ *)
\* A filename is represented by what the code looks at: its length, whether it
\* consists of whitespace only, and the extension after its last dot.
NoFilename == [len |-> 0, blank |-> FALSE, ext |-> ""]
BlankName == [len |-> 2, blank |-> TRUE, ext |-> ""]
PlainName == [len |-> 6, blank |-> FALSE, ext |-> ""]
PdfName == [len |-> 5, blank |-> FALSE, ext |-> ".pdf"]
LongName == [len |-> 256, blank |-> FALSE, ext |-> ""]
Filenames == {NoFilename, BlankName, PlainName, PdfName, LongName}
\* the filenames of Spec: the whitespace-only name, whose upload can only leave
\* an unreferenced object behind, and the second stored name are left to SpecUpload
PdfFilenames == {NoFilename, PdfName, LongName}
BodySizes == {0, MaxFileSize, MaxFileSize + 1}
\* the sizes on both sides of both limits
BoundarySizes == {0, SchemaSizeMin, MaxFileSize, MaxFileSize + 1}
\* the filenames the controller and the schema accept
StoredFilenames == {PlainName, PdfName}

\* mongoose `trim: true` setter on a String path.
Trim(name) == IF name.blank THEN NoFilename ELSE name

\* S3Service.getFileExtension
getFileExtension(name) == name.ext

(* ------------------------------ s3 keys -------------------------------- *)
Uuids == 1..MaxUuid
NoKey == [userId |-> "", uuid |-> 0, ext |-> ""]
\* `files/${userId}/${uniqueId}${fileExtension}`
S3Key(userId, uuid, name) == [userId |-> userId, uuid |-> uuid, ext |-> getFileExtension(name)]

(* ------------------------------- state --------------------------------- *)
VARIABLES
  now,          \* wall clock, in the seconds of the token claims
  subsec,       \* the part of the current second that has passed, in SubTicks-ths
  issued,       \* the last call of a JWTUtils token generator
  users,        \* User collection: the stored documents
  files,        \* File collection: file id -> document
  nextFileId,   \* next _id the metadata store assigns
  objects,      \* keys present in the object store
  uploads,      \* files present under the local directory uploads/
  urlsIssued,   \* file id -> number of 200 responses of GET /file/:id
  deletesOk,    \* file id -> number of 200 responses of DELETE /file/:id
  gate,         \* the last run of a route's middleware chain
  call,         \* the last FileRepository method called directly
  req           \* request slots: the handler's position and locals

vars == <<now, subsec, issued, users, files, nextFileId, objects, uploads, urlsIssued, deletesOk, gate, call, req>>

FileIds == 1..MaxFiles
EmptyFiles == [f \in {} |-> 0]
\* ids a client may put in /file/:id; 0 stands for a string that is no ObjectId
FileIdInputs == 0..MaxFiles

\* A value of a JSON request body: its typeof, and its characters (the digits of
\* a number); a field the body does not carry is undefined.
JsonString(s) == [type |-> "string", chars |-> s]
JsonNumber(digits) == [type |-> "number", chars |-> digits]
Undefined == [type |-> "undefined", chars |-> <<>>]

\* `!value`: undefined, the empty string and the number 0 are falsy
Falsy(value) ==
  \/ value.type = "undefined"
  \/ value.type = "string" /\ value.chars = <<>>
  \/ value.type = "number" /\ value.chars = <<"0">>

\* the JSON a handler has sent when it has sent none
NoBody == [none |-> TRUE]

\* the path parameters of a request that has none
NoLocal == [userId |-> "", filename |-> [up |-> "", base |-> ""]]

IdleReq == [op |-> "none", pc |-> "idle", userId |-> "", subject |-> "", fileId |-> 0,
            filename |-> NoFilename, size |-> 0, s3Key |-> NoKey,
            email |-> <<>>, password |-> Undefined, limit |-> 0, skip |-> 0,
            local |-> NoLocal, timer |-> FALSE, elapsed |-> FALSE,
            resp |-> NoResp, body |-> NoBody, ops |-> {}]

\* no token generator has been called
IdleIssue == [op |-> "none", userId |-> [kind |-> "undefined", str |-> ""],
              ttl |-> 0, at |-> 0, sub |-> 0, ok |-> FALSE, token |-> AnyToken]

IdleGate == [endpoint |-> "none", header |-> [present |-> FALSE, token |-> AnyToken],
             at |-> 0, entered |-> FALSE, resp |-> NoResp]

IdleCall == [op |-> "none", fileId |-> 0, userId |-> "", found |-> FALSE]

Init ==
  /\ now = 0
  /\ subsec = 0
  /\ issued = IdleIssue
  /\ users = {}
  /\ files = EmptyFiles
  /\ nextFileId = 1
  /\ objects = {}
  /\ uploads = {}
  /\ urlsIssued = [f \in FileIds |-> 0]
  /\ deletesOk = [f \in FileIds |-> 0]
  /\ gate = IdleGate
  /\ call = IdleCall
  /\ req = [r \in Reqs |-> IdleReq]

\* res.status(400|401|404|409|500).json({error: {message, code}})
ErrorBody(resp) == [error |-> [message |-> resp.message, code |-> resp.code]]

\* res.status(...).json(...): the response, with who asked for which file and
\* which stores the handler wrote
Done(r, resp) ==
  [IdleReq EXCEPT !.op = req[r].op, !.pc = "done", !.userId = req[r].userId,
     !.subject = req[r].subject, !.fileId = req[r].fileId, !.filename = req[r].filename, !.size = req[r].size,
     !.ops = req[r].ops, !.timer = req[r].timer, !.elapsed = req[r].elapsed,
     !.resp = resp]

(* --------------------------- File repository --------------------------- *)
\* mongoose.Types.ObjectId.isValid on a file id
IsValidObjectId(id) == id # 0

\* File schema validation run by save(): required/maxlength after trim, size range.
SchemaValid(doc) ==
  /\ Trim(doc.filename).len > 0
  /\ Trim(doc.filename).len <= FilenameMaxLength
  /\ doc.size >= SchemaSizeMin
  /\ doc.size <= SchemaSizeMax

\* unique index on s3Key
KeyTaken(key) == \E f \in DOMAIN files : files[f].s3Key = key

NewFile(data) ==
  [userId |-> data.userId, s3Key |-> data.s3Key, filename |-> Trim(data.filename),
   size |-> data.size, uploadedAt |-> now, downloadCount |-> 0, isActive |-> TRUE]

\* FileRepository.create: save() validates, then inserts under the unique index
CreateOutcome(doc) ==
  IF ~SchemaValid(doc) THEN "ValidationError"
  ELSE IF KeyTaken(doc.s3Key) THEN "duplicate"
  ELSE "saved"

FindByIdAndUserIdAnyOwner(fileId, userId) ==
  IF IsValidObjectId(fileId) /\ fileId \in DOMAIN files /\ files[fileId].isActive
  THEN {fileId} ELSE {}

FindByIdAndUserIdAnyState(fileId, userId) ==
  IF IsValidObjectId(fileId) /\ fileId \in DOMAIN files /\ files[fileId].userId = userId
  THEN {fileId} ELSE {}

\* FileRepository.findByIdAndUserId: the matching document (as a set of ids), or none
FindByIdAndUserId(fileId, userId) ==
  IF /\ IsValidObjectId(fileId)
     /\ fileId \in DOMAIN files
     /\ files[fileId].userId = userId
     /\ files[fileId].isActive
  THEN {fileId} ELSE {}

\* FileRepository.findByIdIncludingInactive
FindByIdIncludingInactive(fileId) ==
  IF IsValidObjectId(fileId) /\ fileId \in DOMAIN files THEN {fileId} ELSE {}

FindByUserIdAnyOwner(userId) == {f \in DOMAIN files : files[f].isActive}

\* File.findByUser / FileRepository.findByUserId: the ids of the user's active files
FindByUserId(userId) ==
  {f \in DOMAIN files : files[f].userId = userId /\ files[f].isActive}

\* .sort({uploadedAt: -1}): newest first; documents of one timestamp come in the
\* order of the index, oldest _id first
RECURSIVE SortNewestFirst(_)
SortNewestFirst(S) ==
  IF S = {} THEN <<>>
  ELSE LET f == CHOOSE x \in S : \A y \in S :
                  \/ files[x].uploadedAt > files[y].uploadedAt
                  \/ files[x].uploadedAt = files[y].uploadedAt /\ x <= y
       IN  <<f>> \o SortNewestFirst(S \ {f})

\* the elements skip+1 .. skip+limit of a sequence
Page(all, limit, skip) ==
  IF skip >= Len(all) THEN <<>>
  ELSE SubSeq(all, skip + 1, IF skip + limit < Len(all) THEN skip + limit ELSE Len(all))

FindByUserSkipIgnored(userId, limit, skip) ==
  Page(SortNewestFirst(FindByUserId(userId)), limit, 0)

\* File.findByUser(userId, {limit, skip, sort}): find({userId, isActive: true})
\* .limit(limit).skip(skip).sort(sort), as a sequence of ids
FindByUser(userId, limit, skip) ==
  Page(SortNewestFirst(FindByUserId(userId)), limit, skip)

\* fileSchema toJSON transform: the fields of a listed file
FileToJSON(f) ==
  [fileId |-> f, userId |-> files[f].userId, size |-> files[f].size,
   uploadedAt |-> files[f].uploadedAt, isActive |-> files[f].isActive]

\* FileRepository.countByUserId: countDocuments({userId, isActive: true})
CountByUserId(userId) == Cardinality(FindByUserId(userId))

RECURSIVE SumSizes(_)
SumSizes(S) ==
  IF S = {} THEN 0
  ELSE LET f == CHOOSE x \in S : TRUE IN files[f].size + SumSizes(S \ {f})

\* FileRepository.getTotalSizeByUserId: $match {userId, isActive: true}, $sum size
GetTotalSizeByUserId(userId) == SumSizes(FindByUserId(userId))

IncrementTwice(fileId) ==
  IF IsValidObjectId(fileId) /\ fileId \in DOMAIN files
  THEN [files EXCEPT ![fileId].downloadCount = @ + 2]
  ELSE files

IncrementEveryFile(fileId) ==
  [f \in DOMAIN files |-> [files[f] EXCEPT !.downloadCount = @ + 1]]

\* FileRepository.incrementDownloadCount: findByIdAndUpdate(fileId, {$inc: ...})
IncrementDownloadCount(fileId) ==
  IF IsValidObjectId(fileId) /\ fileId \in DOMAIN files
  THEN [files EXCEPT ![fileId].downloadCount = @ + 1]
  ELSE files

MarkAsDeletedMatchAnyState(fileId, userId) ==
  /\ IsValidObjectId(fileId)
  /\ fileId \in DOMAIN files
  /\ files[fileId].userId = userId

\* FileRepository.markAsDeleted: the filter of its findOneAndUpdate
MarkAsDeletedMatch(fileId, userId) ==
  /\ IsValidObjectId(fileId)
  /\ fileId \in DOMAIN files
  /\ files[fileId].userId = userId
  /\ files[fileId].isActive

\* FileRepository.deleteById: the filter of its findOneAndDelete
DeleteByIdMatch(fileId, userId) ==
  /\ IsValidObjectId(fileId)
  /\ fileId \in DOMAIN files
  /\ files[fileId].userId = userId

\* FileRepository.updateById: `{ ...updateData, lastAccessedAt }` replaces the
\* fields updateData names, whatever they are
ApplyUpdate(file, updateData) ==
  IF updateData.field = "isActive"
  THEN [file EXCEPT !.isActive = updateData.isActive]
  ELSE [file EXCEPT !.filename = updateData.filename]

UpdateInputs == [field : {"filename", "isActive"}, filename : {PdfName, PlainName},
                 isActive : BOOLEAN]

InFlight(op) == Cardinality({r \in Reqs : req[r].op = op /\ req[r].pc \notin {"idle", "done"}})

RECURSIVE SumDownloads(_)
SumDownloads(S) ==
  IF S = {} THEN 0
  ELSE LET f == CHOOSE x \in S : TRUE IN files[f].downloadCount + SumDownloads(S \ {f})

\* the outcomes authenticateToken has on the headers a client can send now
AuthOutcomes == {AuthenticateToken(h, now) : h \in Headers}

(* ----------------------------- POST /upload ---------------------------- *)
UploadValidateSizeExclusive(name, n) ==
  IF name.len = 0
  THEN R(400, "MISSING_FILENAME", "Filename query parameter is required")
  ELSE IF name.len > FilenameMaxLength
  THEN R(400, "FILENAME_TOO_LONG", "Filename must be less than 255 characters")
  ELSE IF n = 0
  THEN R(400, "MISSING_FILE_DATA", "File data is required in request body")
  ELSE IF n >= MaxFileSize
  THEN R(413, "FILE_TOO_LARGE", "File size exceeds maximum limit of 52428800 bytes (50MB)")
  ELSE NoResp

\* FileController.uploadFile, the checks before the first await.
UploadValidate(name, n) ==
  IF name.len = 0
  THEN R(400, "MISSING_FILENAME", "Filename query parameter is required")
  ELSE IF name.len > FilenameMaxLength
  THEN R(400, "FILENAME_TOO_LONG", "Filename must be less than 255 characters")
  ELSE IF n = 0
  THEN R(400, "MISSING_FILE_DATA", "File data is required in request body")
  ELSE IF n > MaxFileSize
  THEN R(413, "FILE_TOO_LARGE", "File size exceeds maximum limit of 52428800 bytes (50MB)")
  ELSE IF n = 0
  THEN R(400, "EMPTY_FILE", "File cannot be empty")
  ELSE NoResp

\* express.raw({limit: '50mb'}), authenticateToken, the controller's checks and
\* S3Service.uploadToS3: the key is generated, then the object is written or the
\* SDK call fails.  Nothing of this request is visible to another request before
\* the object store is touched, so these steps form one action.
\* the owner uploadFile gives the file: a userId sent in the query is not read
UploadOwnerSupplied(subject, supplied) == IF supplied = "" THEN subject ELSE supplied

\* `const userId = req.user.userId`
UploadOwner(subject, supplied) == subject

UploadFile(r, names, sizes) ==
  /\ req[r].pc = "idle"
  /\ (nextFileId - 1) + InFlight("upload") < MaxFiles
  /\ \E a \in AuthOutcomes, name \in names, n \in sizes, uuid \in Uuids, ok \in BOOLEAN,
        supplied \in QueryUserIds :
       LET v == UploadValidate(name, n)
           base == [IdleReq EXCEPT !.op = "upload"]
           userId == UploadOwner(a.userId, supplied)
           asked == IF a.ok
                    THEN [base EXCEPT !.userId = userId, !.subject = a.userId,
                                      !.filename = name, !.size = n]
                    ELSE base
           key == S3Key(userId, uuid, name)
           rejected == IF n > RawBodyLimit
                       THEN R(413, "FILE_TOO_LARGE", "File size exceeds maximum limit")
                       ELSE IF ~a.ok THEN a.resp
                       ELSE IF v # NoResp THEN v
                       ELSE IF ~ok
                       THEN R(500, "STORAGE_ERROR", "Failed to upload file to storage")
                       ELSE NoResp
       IN  IF rejected # NoResp
           THEN /\ req' = [req EXCEPT ![r] = [asked EXCEPT !.pc = "done", !.resp = rejected]]
                /\ objects' = objects
           ELSE /\ req' = [req EXCEPT ![r] =
                     [asked EXCEPT !.pc = "create", !.s3Key = key, !.ops = {"objWrite"}]]
                /\ objects' = objects \cup {key}
  /\ UNCHANGED <<uploads, now, subsec, issued, users, files, nextFileId, urlsIssued, deletesOk, gate, call>>

\* `await fileRepository.create(fileMetadata)` and the controller's response.
UploadCreate(r) ==
  /\ req[r].op = "upload" /\ req[r].pc = "create"
  /\ \E dbUp \in BOOLEAN :
       LET doc == [userId |-> req[r].userId, s3Key |-> req[r].s3Key,
                   filename |-> req[r].filename, size |-> req[r].size]
           outcome == CreateOutcome(doc)
       IN  IF outcome = "ValidationError"
           THEN /\ req' = [req EXCEPT ![r] =
                     Done(r, R(400, "VALIDATION_ERROR", "File metadata validation failed"))]
                /\ UNCHANGED <<files, nextFileId>>
           ELSE IF ~dbUp
           THEN /\ req' = [req EXCEPT ![r] =
                     Done(r, R(500, "UPLOAD_ERROR", "Internal server error during file upload"))]
                /\ UNCHANGED <<files, nextFileId>>
           ELSE IF outcome = "duplicate"
           THEN /\ req' = [req EXCEPT ![r] =
                     Done(r, R(409, "DUPLICATE_FILE", "File already exists"))]
                /\ UNCHANGED <<files, nextFileId>>
           ELSE /\ files' = files @@ (nextFileId :> NewFile(doc))
                /\ nextFileId' = nextFileId + 1
                /\ req' = [req EXCEPT ![r] =
                     [Done(r, R(201, "", "File uploaded successfully"))
                        EXCEPT !.fileId = nextFileId, !.ops = @ \cup {"metaWrite"}]]
  /\ UNCHANGED <<uploads, now, subsec, issued, users, objects, urlsIssued, deletesOk, gate, call>>

(* ----------------------------- GET /file/:id --------------------------- *)
\* authenticateToken and FileController.getFileDownloadUrl up to the answer of
\* `await fileRepository.findByIdAndUserId(fileId, userId)`; the request touches
\* no shared state before that query runs.
GetFileDownloadUrl(r) ==
  /\ req[r].pc = "idle"
  /\ SumDownloads(DOMAIN files) + InFlight("download") < MaxDownloads
  /\ \E a \in AuthOutcomes, id \in FileIdInputs :
       LET base == [IdleReq EXCEPT !.op = "download"]
           asked == [base EXCEPT !.userId = a.userId, !.fileId = id]
       IN  req' = [req EXCEPT ![r] =
             IF ~a.ok THEN [base EXCEPT !.pc = "done", !.resp = a.resp]
             ELSE IF FindByIdAndUserId(id, a.userId) = {}
             THEN [asked EXCEPT !.pc = "done",
                     !.resp = R(404, "FILE_NOT_FOUND", "File not found or access denied")]
             ELSE [asked EXCEPT !.pc = "head", !.s3Key = files[id].s3Key]]
  /\ UNCHANGED <<uploads, now, subsec, issued, users, files, nextFileId, objects, urlsIssued, deletesOk, gate, call>>

\* `await s3Service.fileExists(file.s3Key)`
DownloadHead(r) ==
  /\ req[r].op = "download" /\ req[r].pc = "head"
  /\ req' = [req EXCEPT ![r] =
       IF req[r].s3Key \in objects
       THEN [req[r] EXCEPT !.pc = "presign"]
       ELSE Done(r, R(404, "FILE_NOT_IN_STORAGE", "File not found in storage"))]
  /\ UNCHANGED <<uploads, now, subsec, issued, users, files, nextFileId, objects, urlsIssued, deletesOk, gate, call>>

\* `await s3Service.generatePresignedUrl(...)`: it checks the object again and signs.
DownloadPresign(r) ==
  /\ req[r].op = "download" /\ req[r].pc = "presign"
  /\ \E sdkOk \in BOOLEAN :
       req' = [req EXCEPT ![r] =
         IF req[r].s3Key \in objects /\ sdkOk
         THEN [req[r] EXCEPT !.pc = "inc"]
         ELSE Done(r, R(500, "URL_GENERATION_ERROR", "Failed to generate download URL"))]
  /\ UNCHANGED <<uploads, now, subsec, issued, users, files, nextFileId, objects, urlsIssued, deletesOk, gate, call>>

\* `await fileRepository.incrementDownloadCount(fileId)` and res.json(...)
DownloadInc(r) ==
  /\ req[r].op = "download" /\ req[r].pc = "inc"
  /\ \E dbUp \in BOOLEAN :
       IF dbUp
       THEN /\ files' = IncrementDownloadCount(req[r].fileId)
            /\ urlsIssued' = [urlsIssued EXCEPT ![req[r].fileId] = @ + 1]
            /\ req' = [req EXCEPT ![r] = Done(r, R(200, "", "downloadUrl"))]
       ELSE /\ UNCHANGED <<files, urlsIssued>>
            /\ req' = [req EXCEPT ![r] = Done(r,
                 R(500, "DOWNLOAD_ERROR", "Internal server error while generating download URL"))]
  /\ UNCHANGED <<uploads, now, subsec, issued, users, nextFileId, objects, deletesOk, gate, call>>

(* ------------------------------ GET /files ----------------------------- *)
\* req.query.limit and req.query.skip after parseInt; NoParam stands for a
\* parameter that is absent, not a number, or 0 (all falsy)
NoParam == 0
LimitInputs == {NoParam, 1, ListLimitMax, ListLimitMax + 1}
SkipInputs == {NoParam, 1, 2}

\* authenticateToken and FileController.getUserFiles up to the answer of
\* `await fileRepository.findByUserId(userId, {limit, skip, sort})`
GetUserFiles(r, limits, skips) ==
  /\ req[r].pc = "idle"
  /\ \E a \in AuthOutcomes, limitParam \in limits, skipParam \in skips,
        dbUp \in BOOLEAN :
       LET limit == IF limitParam = NoParam THEN DefaultLimit ELSE limitParam
           skip == skipParam
           base == [IdleReq EXCEPT !.op = "list"]
           asked == [base EXCEPT !.userId = a.userId, !.limit = limit, !.skip = skip]
           page == FindByUser(a.userId, limit, skip)
       IN  req' = [req EXCEPT ![r] =
             IF ~a.ok THEN [base EXCEPT !.pc = "done", !.resp = a.resp]
             ELSE IF limit > ListLimitMax
             THEN [asked EXCEPT !.pc = "done",
                     !.resp = R(400, "LIMIT_TOO_HIGH", "Limit cannot exceed 100"),
                     !.body = ErrorBody(R(400, "LIMIT_TOO_HIGH", "Limit cannot exceed 100"))]
             ELSE IF ~dbUp
             THEN [asked EXCEPT !.pc = "done",
                     !.resp = R(500, "FETCH_FILES_ERROR",
                                "Internal server error while fetching files")]
             ELSE [asked EXCEPT !.pc = "count",
                     !.body = [files |-> [i \in 1..Len(page) |-> FileToJSON(page[i])]]]]
  /\ UNCHANGED <<uploads, now, subsec, issued, users, files, nextFileId, objects, urlsIssued, deletesOk, gate, call>>

\* `await fileRepository.countByUserId(userId)`
ListCount(r) ==
  /\ req[r].op = "list" /\ req[r].pc = "count"
  /\ \E dbUp \in BOOLEAN :
       req' = [req EXCEPT ![r] =
         IF ~dbUp
         THEN [req[r] EXCEPT !.pc = "done", !.body = NoBody,
                 !.resp = R(500, "FETCH_FILES_ERROR",
                            "Internal server error while fetching files")]
         ELSE [req[r] EXCEPT !.pc = "size",
                 !.body = [files |-> req[r].body.files,
                           totalCount |-> CountByUserId(req[r].userId)]]]
  /\ UNCHANGED <<uploads, now, subsec, issued, users, files, nextFileId, objects, urlsIssued, deletesOk, gate, call>>

\* `await fileRepository.getTotalSizeByUserId(userId)` and res.json(...)
ListTotalSize(r) ==
  /\ req[r].op = "list" /\ req[r].pc = "size"
  /\ \E dbUp \in BOOLEAN :
       LET listed == req[r].body.files
           totalCount == req[r].body.totalCount
       IN  req' = [req EXCEPT ![r] =
             IF ~dbUp
             THEN [req[r] EXCEPT !.pc = "done", !.body = NoBody,
                     !.resp = R(500, "FETCH_FILES_ERROR",
                                "Internal server error while fetching files")]
             ELSE [req[r] EXCEPT !.pc = "done", !.resp = R(200, "", ""),
                     !.body = [files |-> listed,
                               pagination |-> [total |-> totalCount,
                                               limit |-> req[r].limit,
                                               skip |-> req[r].skip,
                                               hasMore |-> req[r].skip + Len(listed) < totalCount],
                               summary |-> [totalFiles |-> totalCount,
                                            totalSize |-> GetTotalSizeByUserId(req[r].userId)]]]]
  /\ UNCHANGED <<uploads, now, subsec, issued, users, files, nextFileId, objects, urlsIssued, deletesOk, gate, call>>

(* ----------------------- GET /local/:userId/:filename ------------------ *)
\* names of files under uploads/<userId>/
LocalBases == {"f"}

\* req.params.filename after Express has decoded it: a plain name, or a name
\* behind "../<other directory>/" (sent as ..%2F<directory>%2F<name>)
LocalFilenames ==
  [up : {""} \cup UserIds, base : LocalBases \cup {"nofile"}]

\* path.join(process.cwd(), 'uploads', userId, filename), which resolves ".."
PathJoin(userId, filename) ==
  [userId |-> IF filename.up = "" THEN userId ELSE filename.up, base |-> filename.base]

\* LocalStorageService.uploadToLocal: writes uploads/<userId>/<uuid><ext>
UploadToLocal ==
  /\ \E u \in UserIds, b \in LocalBases :
       uploads' = uploads \cup {[userId |-> u, base |-> b]}
  /\ UNCHANGED <<now, subsec, issued, users, files, nextFileId, objects, urlsIssued, deletesOk, gate, call, req>>

\* the handler of the route after authenticateToken: the response it sends
ServeLocalResponse(a, userId, filename) ==
  IF a.userId # userId
  THEN R(403, "ACCESS_DENIED", "Access denied")
  ELSE IF PathJoin(userId, filename) \notin uploads
  THEN R(404, "FILE_NOT_FOUND", "File not found")
  ELSE R(200, "", "sendFile")

\* router.get('/local/:userId/:filename', authenticateToken, ...): synchronous
ServeLocal(r) ==
  /\ req[r].pc = "idle"
  /\ \E a \in AuthOutcomes, userId \in UserIds, filename \in LocalFilenames :
       LET base == [IdleReq EXCEPT !.op = "local"]
           asked == [base EXCEPT !.userId = a.userId,
                       !.local = [userId |-> userId, filename |-> filename]]
       IN  req' = [req EXCEPT ![r] =
             IF ~a.ok THEN [base EXCEPT !.pc = "done", !.resp = a.resp]
             ELSE [asked EXCEPT !.pc = "done",
                     !.resp = ServeLocalResponse(a, userId, filename)]]
  /\ UNCHANGED <<uploads, now, subsec, issued, users, files, nextFileId, objects, urlsIssued, deletesOk, gate, call>>

(* ---------------------------- DELETE /file/:id ------------------------- *)
\* authenticateToken and FileController.deleteFile up to the answer of
\* `await fileRepository.findByIdAndUserId(fileId, userId)`
DeleteFile(r) ==
  /\ req[r].pc = "idle"
  /\ \E a \in AuthOutcomes, id \in FileIdInputs :
       LET base == [IdleReq EXCEPT !.op = "delete"]
           asked == [base EXCEPT !.userId = a.userId, !.fileId = id]
       IN  req' = [req EXCEPT ![r] =
             IF ~a.ok THEN [base EXCEPT !.pc = "done", !.resp = a.resp]
             ELSE IF FindByIdAndUserId(id, a.userId) = {}
             THEN [asked EXCEPT !.pc = "done",
                     !.resp = R(404, "FILE_NOT_FOUND", "File not found or access denied")]
             ELSE [asked EXCEPT !.pc = "s3del", !.s3Key = files[id].s3Key]]
  /\ UNCHANGED <<uploads, now, subsec, issued, users, files, nextFileId, objects, urlsIssued, deletesOk, gate, call>>

DeleteS3Throws(r) ==
  /\ req[r].op = "delete" /\ req[r].pc = "s3del"
  /\ \E ok \in BOOLEAN :
       /\ objects' = IF ok THEN objects \ {req[r].s3Key} ELSE objects
       /\ req' = [req EXCEPT ![r] =
            IF ok THEN [req[r] EXCEPT !.pc = "mark", !.ops = @ \cup {"objDelete"}]
            ELSE [req[r] EXCEPT !.pc = "done", !.ops = @ \cup {"objDeleteFailed"},
                    !.resp = R(500, "DELETE_ERROR",
                               "Internal server error while deleting file")]]
  /\ UNCHANGED <<uploads, now, subsec, issued, users, files, nextFileId, urlsIssued, deletesOk, gate, call>>

\* `await s3Service.deleteFile(file.s3Key)` inside its own try/catch, which
\* logs the error and goes on
DeleteS3(r) ==
  /\ req[r].op = "delete" /\ req[r].pc = "s3del"
  /\ \E ok \in BOOLEAN :
       /\ objects' = IF ok THEN objects \ {req[r].s3Key} ELSE objects
       /\ req' = [req EXCEPT ![r].pc = "mark",
                             ![r].ops = @ \cup {IF ok THEN "objDelete" ELSE "objDeleteFailed"}]
  /\ UNCHANGED <<uploads, now, subsec, issued, users, files, nextFileId, urlsIssued, deletesOk, gate, call>>

\* `await fileRepository.markAsDeleted(fileId, userId)` and the response
DeleteMark(r) ==
  /\ req[r].op = "delete" /\ req[r].pc = "mark"
  /\ \E dbUp \in BOOLEAN :
       IF ~dbUp
       THEN /\ UNCHANGED <<files, deletesOk>>
            /\ req' = [req EXCEPT ![r] = Done(r,
                 R(500, "DELETE_ERROR", "Internal server error while deleting file"))]
       ELSE IF MarkAsDeletedMatch(req[r].fileId, req[r].userId)
       THEN /\ files' = [files EXCEPT ![req[r].fileId].isActive = FALSE]
            /\ deletesOk' = [deletesOk EXCEPT ![req[r].fileId] = @ + 1]
            /\ req' = [req EXCEPT ![r] = Done(r, R(200, "", "File deleted successfully"))]
       ELSE /\ UNCHANGED <<files, deletesOk>>
            /\ req' = [req EXCEPT ![r] = Done(r,
                 R(404, "FILE_NOT_FOUND", "File not found or already deleted"))]
  /\ UNCHANGED <<uploads, now, subsec, issued, users, nextFileId, objects, urlsIssued, gate, call>>

(* ----------------------------- POST /register -------------------------- *)
\* Strings are sequences of characters; these are the ones the checks tell apart.
Letters == {"a", "A"}
Digits == {"1"}

\* the character class [^\s@]
NotSpaceNorAt(c) == c # " " /\ c # "@"

AllNotSpaceNorAt(s) == \A i \in 1..Len(s) : NotSpaceNorAt(s[i])

\* /^[^\s@]+@[^\s@]+\.[^\s@]+$/.test(email)
EmailRegexTest(s) ==
  \E i, j \in 1..Len(s) :
    /\ 1 < i /\ i + 1 < j /\ j < Len(s)
    /\ s[i] = "@" /\ s[j] = "."
    /\ AllNotSpaceNorAt(SubSeq(s, 1, i - 1))
    /\ AllNotSpaceNorAt(SubSeq(s, i + 1, j - 1))
    /\ AllNotSpaceNorAt(SubSeq(s, j + 1, Len(s)))

\* String.prototype.toLowerCase
ToLowerCase(s) == [i \in 1..Len(s) |-> IF s[i] = "A" THEN "a" ELSE s[i]]

\* String.prototype.trim
RECURSIVE TrimString(_)
TrimString(s) ==
  IF s = <<>> THEN s
  ELSE IF Head(s) = " " THEN TrimString(Tail(s))
  ELSE IF s[Len(s)] = " " THEN TrimString(SubSeq(s, 1, Len(s) - 1))
  ELSE s

PasswordErrorsNoDigitRule(password) ==
  IF Falsy(password) \/ password.type # "string"
  THEN <<"Password must be a string">>
  ELSE (IF Len(password.chars) < PasswordMinLength
        THEN <<"Password must be at least 6 characters long">> ELSE <<>>)
       \o (IF Len(password.chars) > PasswordMaxLength
           THEN <<"Password must be less than 128 characters long">> ELSE <<>>)
       \o (IF ~\E i \in 1..Len(password.chars) : password.chars[i] \in Letters
           THEN <<"Password must contain at least one letter">> ELSE <<>>)

\* the `errors` array PasswordUtils.validatePasswordStrength builds, in order
PasswordErrors(password) ==
  IF Falsy(password) \/ password.type # "string"
  THEN <<"Password must be a string">>
  ELSE (IF Len(password.chars) < PasswordMinLength
        THEN <<"Password must be at least 6 characters long">> ELSE <<>>)
       \o (IF Len(password.chars) > PasswordMaxLength
           THEN <<"Password must be less than 128 characters long">> ELSE <<>>)
       \o (IF ~\E i \in 1..Len(password.chars) : password.chars[i] \in Letters
           THEN <<"Password must contain at least one letter">> ELSE <<>>)
       \o (IF ~\E i \in 1..Len(password.chars) : password.chars[i] \in Digits
           THEN <<"Password must contain at least one number">> ELSE <<>>)

\* PasswordUtils.validatePasswordStrength
validatePasswordStrength(password) ==
  [isValid |-> Len(PasswordErrors(password)) = 0, errors |-> PasswordErrors(password)]

EmailInputs == {<<>>, <<"a", "@", "a", ".", "a">>, <<"A", "@", "a", ".", "a">>,
                <<"1", "@", "a", ".", "a">>, <<"a", "@", "a">>,
                <<"a", " ", "@", "a", ".", "a">>}
PasswordInputs == {<<>>, <<"a", "a", "a", "a", "a", "1">>, <<"a", "1">>,
                   <<"a", "a", "a", "a", "a", "a">>, <<"1", "1", "1", "1", "1", "1">>}
\* the request bodies of SpecInput: a missing, a valid and an invalid value of each
InputEmails == {<<>>, <<"a", "@", "a", ".", "a">>, <<"a", "@", "a">>}
InputPasswords == {JsonString(<<>>), JsonString(<<"a", "a", "a", "a", "a", "1">>),
                   JsonString(<<"a", "1">>)}

\* passwords around every rule of the policy: too short, without a digit,
\* both, without a letter, of 128 and of 129 characters, and values that are no
\* string
StrengthInputs ==
  {Undefined, JsonString(<<>>), JsonNumber(<<"1", "1", "1", "1", "1", "1">>),
   JsonString(<<"a", "a", "a", "a", "a", "1">>),
   JsonString(<<"a", "a", "a", "a", "1">>),
   JsonString(<<"a", "a", "a">>),
   JsonString(<<"a", "a", "a", "a", "a", "a">>),
   JsonString(<<"1", "1", "1", "1", "1", "1">>),
   JsonString(<<".", ".", ".", ".", ".", ".">>),
   JsonString([i \in 1..PasswordMaxLength |-> IF i = 1 THEN "1" ELSE "a"]),
   JsonString([i \in 1..(PasswordMaxLength + 1) |-> IF i = 1 THEN "1" ELSE "a"]),
   JsonString([i \in 1..(PasswordMaxLength + 1) |-> "a"])}


\* AuthController.register, the checks before the first await.
RegisterValidate(email, password) ==
  IF email = <<>> \/ Falsy(password)
  THEN R(400, "MISSING_FIELDS", "Email and password are required")
  ELSE IF ~EmailRegexTest(email)
  THEN R(400, "INVALID_EMAIL", "Please provide a valid email address")
  ELSE IF ~validatePasswordStrength(password).isValid
  THEN R(400, "WEAK_PASSWORD", "Password does not meet requirements")
  ELSE NoResp

\* the JSON register sends with a 400: WEAK_PASSWORD carries `details`
RegisterErrorBody(resp, password) ==
  IF resp.code = "WEAK_PASSWORD"
  THEN [error |-> [message |-> resp.message, code |-> resp.code,
                   details |-> validatePasswordStrength(password).errors]]
  ELSE ErrorBody(resp)

FindByEmailExact(email) == {u \in users : u.email = email}

\* UserRepository.findByEmail: User.findOne({email: email.toLowerCase()})
FindByEmail(email) == {u \in users : u.email = ToLowerCase(email)}

\* UserRepository.findById
FindById(userId) == {u \in users : u.id = userId}

\* bcrypt.hash: the salt and the digest of the password under it
HashPassword(password, salt) == <<"$", salt>> \o password.chars

\* PasswordUtils.comparePassword: bcrypt.compare hashes the password with the
\* salt of the stored hash; it throws on a password that is no string
ComparePassword(password, hashedPassword) ==
  IF Falsy(password) \/ password.type # "string" THEN "throws"
  ELSE IF HashPassword(password, hashedPassword[2]) = hashedPassword THEN "match"
  ELSE "mismatch"

Salts == {"s"}

\* the hex string of the ObjectId the store gives the next user
NextUserId == IF users = {} THEN "u1" ELSE "u2"

\* userSchema.options.toJSON.transform: delete ret.passwordHash
UserToJSON(user) == [id |-> user.id, email |-> user.email, createdAt |-> user.createdAt]

\* AuthController.register up to the answer of `await userRepository.findByEmail`
Register(r, emails, passwords) ==
  /\ req[r].pc = "idle"
  /\ \E email \in emails, password \in passwords :
       LET v == RegisterValidate(email, password)
           base == [IdleReq EXCEPT !.op = "register", !.email = email,
                                   !.password = password]
       IN  req' = [req EXCEPT ![r] =
             IF v # NoResp
             THEN [base EXCEPT !.pc = "done", !.resp = v,
                               !.body = RegisterErrorBody(v, password)]
             ELSE IF FindByEmail(email) # {}
             THEN [base EXCEPT !.pc = "done", !.ops = {"userRead"},
                     !.resp = R(409, "EMAIL_EXISTS", "User with this email already exists"),
                     !.body = ErrorBody(R(409, "EMAIL_EXISTS",
                                          "User with this email already exists"))]
             ELSE [base EXCEPT !.pc = "save", !.ops = {"userRead"}]]
  /\ UNCHANGED <<uploads, now, subsec, issued, users, files, nextFileId, objects, urlsIssued, deletesOk, gate, call>>


EmailTakenNever(email) == FALSE

\* the unique index on email: save() fails with code 11000 when a document
\* with this email is stored
EmailTaken(email) == \E u \in users : u.email = email

\* `await passwordUtils.hashPassword`, `await userRepository.create(userData)`
\* under the unique index on email, and the response
RegisterCreate(r) ==
  /\ req[r].op = "register" /\ req[r].pc = "save"
  /\ \E dbUp \in BOOLEAN, salt \in Salts :
       LET stored == TrimString(ToLowerCase(req[r].email))
           user == [id |-> NextUserId, email |-> stored,
                    passwordHash |-> HashPassword(req[r].password, salt),
                    createdAt |-> now]
           newUser == UserToJSON(user)
           kept == [Done(r, NoResp) EXCEPT !.email = req[r].email,
                                           !.password = req[r].password]
           fail(resp) == [kept EXCEPT !.resp = resp, !.body = ErrorBody(resp)]
       IN  IF ~dbUp
           THEN /\ users' = users
                /\ req' = [req EXCEPT ![r] = fail(
                     R(500, "REGISTRATION_ERROR", "Internal server error during registration"))]
           ELSE IF EmailTaken(stored)
           THEN /\ users' = users
                /\ req' = [req EXCEPT ![r] =
                     [fail(R(409, "EMAIL_EXISTS", "User with this email already exists"))
                        EXCEPT !.ops = @ \cup {"userWriteRefused"}]]
           ELSE /\ users' = users \cup {user}
                /\ req' = [req EXCEPT ![r] =
                     [kept EXCEPT !.resp = R(201, "", "User registered successfully"),
                                  !.userId = newUser.id,
                                  !.ops = @ \cup {"userWrite"},
                                  !.body = [message |-> "User registered successfully",
                                            userId |-> newUser.id,
                                            email |-> newUser.email,
                                            createdAt |-> newUser.createdAt]]]
  /\ UNCHANGED <<uploads, now, subsec, issued, files, nextFileId, objects, urlsIssued, deletesOk, gate, call>>

(* --------------------------- token generators ------------------------- *)
\* The argument of a generator: the kind of value it is and what its toString()
\* returns (the hex string of an ObjectId, the string itself).
ObjectIdOf(hex) == [kind |-> "ObjectId", str |-> hex]
StringId(str) == [kind |-> "string", str |-> str]
NoId == [kind |-> "undefined", str |-> ""]

\* `!userId`
FalsyId(userId) == userId.kind = "undefined" \/ (userId.kind = "string" /\ userId.str = "")

\* time spans are in milliseconds; an `expiresIn` option that is absent or 0 is falsy
NoExpiresIn == 0
JwtExpiresIn == 86400000
RefreshExpiresIn == 604800000
MsPerSecond == 1000

\* jsonwebtoken's timespan: `exp` is a whole number of seconds
Timespan(ms, iat) == iat + (ms \div MsPerSecond)

\* JWTUtils.generateToken at a time when Math.floor(Date.now() / 1000) = iat
GenerateToken(userId, expiresIn, iat) ==
  IF FalsyId(userId) THEN [ok |-> FALSE, token |-> AnyToken]
  ELSE [ok |-> TRUE,
        token |-> [userId |-> userId.str, type |-> "access_token",
                   exp |-> Timespan(IF expiresIn = NoExpiresIn THEN JwtExpiresIn
                                    ELSE expiresIn, iat),
                   sig |-> JwtSecret, nbf |-> NoNbf]]

\* JWTUtils.generateRefreshToken
GenerateRefreshToken(userId, iat) ==
  IF FalsyId(userId) THEN [ok |-> FALSE, token |-> AnyToken]
  ELSE [ok |-> TRUE,
        token |-> [userId |-> userId.str, type |-> "refresh_token",
                   exp |-> Timespan(RefreshExpiresIn, iat),
                   sig |-> JwtSecret, nbf |-> NoNbf]]

\* the wall clock (Date.now()) in milliseconds; `now` is Math.floor of it in seconds
ClockMs(seconds, sub) == seconds * MsPerSecond + (sub * MsPerSecond) \div SubTicks

\* part of a second passes
TickSub ==
  /\ subsec < SubTicks - 1 \/ now < MaxTime
  /\ IF subsec < SubTicks - 1
     THEN subsec' = subsec + 1 /\ now' = now
     ELSE subsec' = 0 /\ now' = now + 1
  /\ UNCHANGED <<uploads, issued, users, files, nextFileId, objects, urlsIssued, deletesOk, gate, call, req>>

IdArgs == {NoId, StringId(""), StringId("u1"), ObjectIdOf("u1"), ObjectIdOf("u2")}
\* options.expiresIn: absent, '1ms', 1 and 2 (seconds)
ExpiresInOptions == {NoExpiresIn, 1, MsPerSecond, 2 * MsPerSecond}

\* jwtUtils.generateToken(userId, {expiresIn}) is called
CallGenerateToken ==
  /\ \E userId \in IdArgs, expiresIn \in ExpiresInOptions :
       issued' = [op |-> "generateToken", userId |-> userId,
                  ttl |-> IF expiresIn = NoExpiresIn THEN JwtExpiresIn ELSE expiresIn,
                  at |-> now, sub |-> subsec,
                  ok |-> GenerateToken(userId, expiresIn, now).ok,
                  token |-> GenerateToken(userId, expiresIn, now).token]
  /\ UNCHANGED <<uploads, now, subsec, users, files, nextFileId, objects, urlsIssued, deletesOk, gate, call, req>>

\* jwtUtils.generateRefreshToken(userId) is called
CallGenerateRefreshToken ==
  /\ \E userId \in IdArgs :
       issued' = [op |-> "generateRefreshToken", userId |-> userId,
                  ttl |-> RefreshExpiresIn, at |-> now, sub |-> subsec,
                  ok |-> GenerateRefreshToken(userId, now).ok,
                  token |-> GenerateRefreshToken(userId, now).token]
  /\ UNCHANGED <<uploads, now, subsec, users, files, nextFileId, objects, urlsIssued, deletesOk, gate, call, req>>

(* ------------------------------ POST /login ---------------------------- *)
\* the request bodies of the auth service: the passwords as JSON strings, and a
\* password sent as a JSON number
AuthPasswords == {JsonString(p) : p \in PasswordInputs}
                   \cup {JsonNumber(<<"1", "1", "1", "1", "1", "1">>)}

LoginBodyWholeUser(user, token) ==
  [message |-> "Login successful", token |-> token, userId |-> user.id,
   email |-> user.email, passwordHash |-> user.passwordHash]

\* res.json({message, token, userId, email}) of login
LoginBody(user, token) ==
  [message |-> "Login successful", token |-> token, userId |-> user.id,
   email |-> user.email]

\* AuthController.login.  `await userRepository.findByEmail` is its only access
\* to shared state: comparePassword and generateToken work on the document read.
Login(r) ==
  /\ req[r].pc = "idle"
  /\ \E email \in EmailInputs, password \in AuthPasswords, dbUp \in BOOLEAN :
       LET base == [IdleReq EXCEPT !.op = "login", !.pc = "done", !.email = email,
                                   !.password = password]
           fail(resp) == [base EXCEPT !.resp = resp, !.body = ErrorBody(resp)]
           found == FindByEmail(email)
           user == CHOOSE u \in found : TRUE
           token == GenerateToken(ObjectIdOf(user.id), NoExpiresIn, now).token
       IN  req' = [req EXCEPT ![r] =
             IF email = <<>> \/ Falsy(password)
             THEN fail(R(400, "MISSING_FIELDS", "Email and password are required"))
             ELSE IF ~dbUp
             THEN fail(R(500, "LOGIN_ERROR", "Internal server error during login"))
             ELSE IF found = {}
             THEN [fail(R(401, "INVALID_CREDENTIALS", "Invalid email or password"))
                     EXCEPT !.ops = {"userRead"}]
             ELSE IF ComparePassword(password, user.passwordHash) = "throws"
             THEN [fail(R(500, "LOGIN_ERROR", "Internal server error during login"))
                     EXCEPT !.ops = {"userRead"}]
             ELSE IF ComparePassword(password, user.passwordHash) = "mismatch"
             THEN [fail(R(401, "INVALID_CREDENTIALS", "Invalid email or password"))
                     EXCEPT !.ops = {"userRead"}]
             ELSE [base EXCEPT !.resp = R(200, "", "Login successful"),
                               !.userId = user.id, !.ops = {"userRead"},
                               !.body = LoginBody(user, token)]]
  /\ UNCHANGED <<uploads, now, subsec, issued, users, files, nextFileId, objects, urlsIssued, deletesOk, gate, call>>

(* --------------------------- GET /me, POST /refresh -------------------- *)
\* res.json({userId, email, createdAt, updatedAt}) of getProfile
ProfileBody(user) ==
  [userId |-> user.id, email |-> user.email, createdAt |-> user.createdAt,
   updatedAt |-> user.createdAt]

\* authenticateToken and AuthController.getProfile
GetProfile(r) ==
  /\ req[r].pc = "idle"
  /\ \E a \in AuthOutcomes, dbUp \in BOOLEAN :
       LET base == [IdleReq EXCEPT !.op = "getProfile", !.pc = "done"]
           fail(resp) == [base EXCEPT !.resp = resp, !.body = ErrorBody(resp)]
           found == FindById(a.userId)
           user == UserToJSON(CHOOSE u \in found : TRUE)
       IN  req' = [req EXCEPT ![r] =
             IF ~a.ok THEN fail(a.resp)
             ELSE IF ~dbUp
             THEN fail(R(500, "PROFILE_ERROR", "Internal server error while fetching profile"))
             ELSE IF found = {}
             THEN [fail(R(404, "USER_NOT_FOUND", "User not found"))
                     EXCEPT !.userId = a.userId]
             ELSE [base EXCEPT !.resp = R(200, "", ""), !.userId = a.userId,
                               !.ops = {"userRead"}, !.body = ProfileBody(user)]]
  /\ UNCHANGED <<uploads, now, subsec, issued, users, files, nextFileId, objects, urlsIssued, deletesOk, gate, call>>

\* authenticateToken, requireTokenType('refresh_token') and
\* AuthController.refreshToken
RefreshToken(r) ==
  /\ req[r].pc = "idle"
  /\ \E a \in AuthOutcomes, dbUp \in BOOLEAN :
       LET base == [IdleReq EXCEPT !.op = "refresh", !.pc = "done"]
           fail(resp) == [base EXCEPT !.resp = resp, !.body = ErrorBody(resp)]
           k == RequireTokenType(a.tokenType, "refresh_token")
           found == FindById(a.userId)
           user == UserToJSON(CHOOSE u \in found : TRUE)
           token == GenerateToken(ObjectIdOf(user.id), NoExpiresIn, now).token
       IN  req' = [req EXCEPT ![r] =
             IF ~a.ok THEN fail(a.resp)
             ELSE IF k # NoResp THEN fail(k)
             ELSE IF ~dbUp
             THEN fail(R(500, "REFRESH_ERROR", "Internal server error during token refresh"))
             ELSE IF found = {}
             THEN [fail(R(404, "USER_NOT_FOUND", "User not found"))
                     EXCEPT !.userId = a.userId]
             ELSE [base EXCEPT !.resp = R(200, "", "Token refreshed successfully"),
                               !.userId = a.userId, !.ops = {"userRead"},
                               !.body = [message |-> "Token refreshed successfully",
                                         token |-> token, userId |-> user.id]]]
  /\ UNCHANGED <<uploads, now, subsec, issued, users, files, nextFileId, objects, urlsIssued, deletesOk, gate, call>>

\* the response has been sent; the slot serves the next request
Finish(r) ==
  /\ req[r].pc = "done"
  /\ req' = [req EXCEPT ![r] = IdleReq]
  /\ UNCHANGED <<uploads, now, subsec, issued, users, files, nextFileId, objects, urlsIssued, deletesOk, gate, call>>

(* ------------------------- clock and middleware ------------------------ *)
\* a second passes
Tick ==
  /\ now < MaxTime
  /\ now' = now + 1
  /\ UNCHANGED <<uploads, subsec, issued, users, files, nextFileId, objects, urlsIssued, deletesOk, gate, call, req>>

\* a request reaches a route and runs its middleware chain
GateRun(endpoint, header) ==
  /\ gate' = [endpoint |-> endpoint, header |-> header, at |-> now,
              entered |-> RouteChain(endpoint, header, now).entered,
              resp |-> RouteChain(endpoint, header, now).resp]
  /\ UNCHANGED <<uploads, now, subsec, issued, users, files, nextFileId, objects, urlsIssued, deletesOk, call, req>>

\* req.headers.authorization as the middleware reads it: no header, the empty
\* string, "Bearer " alone, "Bearer <token>", "<token>", and "Bearer " before
\* a string that is no JWT
AuthorizationValues ==
  {[kind |-> k, token |-> AnyToken] : k \in {"absent", "empty", "bearerOnly", "malformed"}}
    \cup [kind : {"bearer", "raw"}, token : Tokens]

\* authenticateToken from the header value on: `!authHeader`, the removal of the
\* "Bearer " prefix, `!token`, then verifyToken
AuthenticateHeader(authorization, t) ==
  IF authorization.kind \in {"absent", "empty"}
  THEN [ok |-> FALSE, userId |-> "", tokenType |-> "",
        resp |-> R(401, "MISSING_AUTH_HEADER", "Authorization header is required")]
  ELSE IF authorization.kind = "bearerOnly"
  THEN [ok |-> FALSE, userId |-> "", tokenType |-> "",
        resp |-> R(401, "MISSING_TOKEN", "Token is required")]
  ELSE IF authorization.kind = "malformed"
  THEN [ok |-> FALSE, userId |-> "", tokenType |-> "",
        resp |-> R(401, "INVALID_TOKEN", "Invalid token format")]
  ELSE AuthenticateToken([present |-> TRUE, token |-> authorization.token], t)

\* a request with an Authorization value reaches a route of the file service
AuthRun(endpoint, authorization) ==
  /\ LET a == AuthenticateHeader(authorization, now)
     IN  gate' = [endpoint |-> endpoint, header |-> authorization, at |-> now,
                  entered |-> a.ok, resp |-> a.resp, user |-> a.userId]
  /\ UNCHANGED <<uploads, now, subsec, issued, users, files, nextFileId, objects, urlsIssued, deletesOk, call, req>>

(* ------------------------------ timeouts ------------------------------ *)
\* a request no route matches: it passes the router, timeoutHandler arms the
\* response's timer and calls next(), and notFoundHandler answers
NotFound(r) ==
  /\ req[r].pc = "idle"
  /\ req' = [req EXCEPT ![r] =
       [IdleReq EXCEPT !.op = "unrouted", !.pc = "done", !.timer = TRUE,
          !.resp = R(404, "ROUTE_NOT_FOUND", "Route not found")]]
  /\ UNCHANGED <<uploads, now, subsec, issued, users, files, nextFileId, objects, urlsIssued, deletesOk, gate, call>>

\* the timeout period (60 s in the file service, 30 s in the auth service) has
\* passed since the request came in and its handler has not responded: an armed
\* timer calls next(err) and errorHandler answers 408; no timer, no answer
TimeoutElapses(r) ==
  /\ req[r].pc \notin {"idle", "done"}
  /\ ~req[r].elapsed
  /\ req' = [req EXCEPT ![r] =
       IF req[r].timer
       THEN [req[r] EXCEPT !.pc = "done", !.elapsed = TRUE,
               !.resp = R(408, "REQUEST_TIMEOUT", "Request timeout")]
       ELSE [req[r] EXCEPT !.elapsed = TRUE]]
  /\ UNCHANGED <<uploads, now, subsec, issued, users, files, nextFileId, objects, urlsIssued, deletesOk, gate, call>>

(* ------------------- FileRepository, method by method ------------------ *)
RepoCreate(names) ==
  /\ nextFileId <= MaxFiles
  /\ \E u \in UserIds, uuid \in Uuids, name \in names :
       LET doc == [userId |-> u, s3Key |-> S3Key(u, uuid, name),
                   filename |-> name, size |-> MaxFileSize]
       IN  IF CreateOutcome(doc) = "saved"
           THEN /\ files' = files @@ (nextFileId :> NewFile(doc))
                /\ nextFileId' = nextFileId + 1
                /\ call' = [op |-> "create", fileId |-> nextFileId, userId |-> u,
                            found |-> TRUE]
           ELSE /\ UNCHANGED <<files, nextFileId>>
                /\ call' = [op |-> "create", fileId |-> 0, userId |-> u, found |-> FALSE]
  /\ UNCHANGED <<uploads, now, subsec, issued, users, objects, urlsIssued, deletesOk, gate, req>>

RepoUpdateById ==
  /\ \E id \in FileIdInputs, updateData \in UpdateInputs :
       LET hit == FindByIdIncludingInactive(id) # {}
       IN  /\ files' = IF hit THEN [files EXCEPT ![id] = ApplyUpdate(@, updateData)]
                       ELSE files
           /\ call' = [op |-> "updateById", fileId |-> id, userId |-> "", found |-> hit]
  /\ UNCHANGED <<uploads, now, subsec, issued, users, nextFileId, objects, urlsIssued, deletesOk, gate, req>>

RepoIncrementDownloadCount ==
  /\ SumDownloads(DOMAIN files) < MaxDownloads
  /\ \E id \in FileIdInputs :
       /\ files' = IncrementDownloadCount(id)
       /\ call' = [op |-> "incrementDownloadCount", fileId |-> id, userId |-> "",
                   found |-> FindByIdIncludingInactive(id) # {}]
  /\ UNCHANGED <<uploads, now, subsec, issued, users, nextFileId, objects, urlsIssued, deletesOk, gate, req>>

RepoMarkAsDeleted ==
  /\ \E id \in FileIdInputs, u \in UserIds :
       LET hit == MarkAsDeletedMatch(id, u)
       IN  /\ files' = IF hit THEN [files EXCEPT ![id].isActive = FALSE] ELSE files
           /\ call' = [op |-> "markAsDeleted", fileId |-> id, userId |-> u, found |-> hit]
  /\ UNCHANGED <<uploads, now, subsec, issued, users, nextFileId, objects, urlsIssued, deletesOk, gate, req>>

RepoDeleteById ==
  /\ \E id \in FileIdInputs, u \in UserIds :
       LET hit == DeleteByIdMatch(id, u)
       IN  /\ files' = IF hit THEN [f \in DOMAIN files \ {id} |-> files[f]] ELSE files
           /\ call' = [op |-> "deleteById", fileId |-> id, userId |-> u, found |-> hit]
  /\ UNCHANGED <<uploads, now, subsec, issued, users, nextFileId, objects, urlsIssued, deletesOk, gate, req>>

(* ---------------------------- specifications --------------------------- *)
Next ==
  \E r \in Reqs :
    \/ UploadFile(r, PdfFilenames, BodySizes) \/ UploadCreate(r)
    \/ GetFileDownloadUrl(r) \/ DownloadHead(r) \/ DownloadPresign(r) \/ DownloadInc(r)
    \/ DeleteFile(r) \/ DeleteS3(r) \/ DeleteMark(r)
    \/ Finish(r)

Spec == Init /\ [][Next]_vars

NextUpload ==
  \E r \in Reqs :
    \/ UploadFile(r, Filenames, BodySizes) \/ UploadCreate(r)
    \/ DeleteFile(r) \/ DeleteS3(r) \/ DeleteMark(r)
    \/ Finish(r)

SpecUpload == Init /\ [][NextUpload]_vars

NextSize ==
  \E r \in Reqs :
    \/ UploadFile(r, StoredFilenames, BoundarySizes) \/ UploadCreate(r)
    \/ Finish(r)

SpecSize == Init /\ [][NextSize]_vars

NextInput ==
  \E r \in Reqs :
    \/ UploadFile(r, Filenames, BodySizes) \/ UploadCreate(r)
    \/ Register(r, InputEmails, InputPasswords) \/ RegisterCreate(r)
    \/ Finish(r)

SpecInput == Init /\ [][NextInput]_vars

NextAuth ==
  \E r \in Reqs :
    \/ Register(r, EmailInputs, AuthPasswords) \/ RegisterCreate(r)
    \/ Login(r) \/ GetProfile(r) \/ RefreshToken(r)
    \/ Finish(r)

SpecAuth == Init /\ [][NextAuth]_vars

NextIssue == TickSub \/ CallGenerateToken \/ CallGenerateRefreshToken

SpecIssue == Init /\ [][NextIssue]_vars

NextPassword ==
  \E r \in Reqs :
    \/ Register(r, InputEmails, StrengthInputs) \/ RegisterCreate(r)
    \/ Finish(r)

SpecPassword == Init /\ [][NextPassword]_vars

NextList ==
  \/ RepoCreate(StoredFilenames) \/ RepoMarkAsDeleted \/ Tick
  \/ \E r \in 1..MaxListers :
       \/ GetUserFiles(r, LimitInputs, SkipInputs) \/ ListCount(r) \/ ListTotalSize(r)
       \/ Finish(r)

SpecList == Init /\ [][NextList]_vars

NextLocal ==
  \/ UploadToLocal
  \/ \E r \in Reqs : ServeLocal(r) \/ Finish(r)

SpecLocal == Init /\ [][NextLocal]_vars

NextHeader ==
  \/ Tick
  \/ \E endpoint \in FileEndpoints, authorization \in AuthorizationValues :
       AuthRun(endpoint, authorization)

SpecHeader == Init /\ [][NextHeader]_vars

NextTimeout ==
  \E r \in Reqs :
    \/ UploadFile(r, {PdfName}, {MaxFileSize}) \/ UploadCreate(r)
    \/ NotFound(r) \/ TimeoutElapses(r)
    \/ Finish(r)

\* time passes whatever the handlers do; a handler's store may never answer
SpecTimeout ==
  Init /\ [][NextTimeout]_vars /\ \A r \in Reqs : WF_vars(TimeoutElapses(r))

NextFrame ==
  \/ \E r \in Reqs :
       \/ UploadFile(r, {PdfName}, {MaxFileSize}) \/ UploadCreate(r)
       \/ GetFileDownloadUrl(r) \/ DownloadHead(r) \/ DownloadPresign(r) \/ DownloadInc(r)
       \/ DeleteFile(r) \/ DeleteS3(r) \/ DeleteMark(r)
       \/ Finish(r)
  \/ \E r \in 1..MaxListers :
       GetUserFiles(r, {NoParam}, {NoParam}) \/ ListCount(r) \/ ListTotalSize(r)

SpecFrame == Init /\ [][NextFrame]_vars

NextToken ==
  \/ Tick
  \/ \E endpoint \in Endpoints, header \in Headers : GateRun(endpoint, header)

SpecToken == Init /\ [][NextToken]_vars

NextRepo ==
  \/ RepoCreate({PdfName, BlankName}) \/ RepoUpdateById \/ RepoIncrementDownloadCount
  \/ RepoMarkAsDeleted \/ RepoDeleteById

SpecRepo == Init /\ [][NextRepo]_vars

C2_NoInterchange ==
  (/\ gate.endpoint # "none"
   /\ gate.header.present
   /\ JwtVerify(gate.header.token, gate.at) = "ok")
  => /\ (gate.endpoint # "POST /refresh" /\ gate.header.token.type = "refresh_token")
          => (~gate.entered /\ gate.resp.status = 401)
     /\ (gate.endpoint = "POST /refresh" /\ gate.header.token.type = "access_token")
          => (~gate.entered /\ gate.resp.status = 401
              /\ gate.resp.code = "INVALID_TOKEN_TYPE")

\* C3 (amended): at every time, verify succeeds exactly for the tokens whose
\* signature verifies, that are not expired (now < exp) and whose nbf, if any,
\* has passed.  A token whose signature verifies and whose nbf has passed is
\* answered 401 TOKEN_EXPIRED from exp on, the clock never goes back, an expired
\* token never verifies again, and running a route's middleware changes the
\* outcome of verify for no token.
C3_VerifyIffValid ==
  /\ [](\A tok \in Tokens :
          VerifyToken(tok, now).ok
            <=> (/\ tok.sig = JwtSecret
                 /\ now < tok.exp
                 /\ (tok.nbf = NoNbf \/ now >= tok.nbf)))
  /\ []((/\ gate.endpoint # "none"
         /\ gate.header.present
         /\ gate.header.token.sig = JwtSecret
         /\ (gate.header.token.nbf = NoNbf \/ gate.at >= gate.header.token.nbf)
         /\ gate.at >= gate.header.token.exp)
        => (~gate.entered /\ gate.resp = R(401, "TOKEN_EXPIRED", "Token has expired")))
  /\ [][/\ now' >= now
        /\ \A tok \in Tokens :
             /\ now >= tok.exp => ~VerifyToken(tok, now').ok
             /\ gate' # gate => VerifyToken(tok, now') = VerifyToken(tok, now)]_vars

\* a correctly signed token that verified at time 0 has reached a route at or
\* after its expiry time and has been refused with TOKEN_EXPIRED
C3_Witness ==
  /\ gate.endpoint # "none"
  /\ gate.header.present
  /\ gate.header.token.sig = JwtSecret
  /\ gate.at >= gate.header.token.exp
  /\ VerifyToken(gate.header.token, 0).ok
  /\ gate.resp.code = "TOKEN_EXPIRED"

\* C3 as stated: once t >= exp, every verify of the token fails with Expired
\* (401 TOKEN_EXPIRED at the middleware), whatever the token.
C3_ExpiredAlwaysReported ==
  (/\ gate.endpoint # "none"
   /\ gate.header.present
   /\ gate.at >= gate.header.token.exp)
  => gate.resp.code = "TOKEN_EXPIRED"

\* C4: a record is created only for a key this upload has written to the object
\* store; a failed object write is answered 500 STORAGE_ERROR and changes no
\* store; when the metadata write fails after the object write, no record is
\* created and the object written is referenced by no record.
C4_ObjectBeforeMetadata ==
  [][\A r \in Reqs :
       /\ (req[r].pc = "create" /\ req'[r].resp.status = 201)
            => ("objWrite" \in req[r].ops /\ req[r].s3Key \in objects)
       /\ (req[r].pc = "idle" /\ req'[r].resp.code = "STORAGE_ERROR")
            => (req'[r].resp.status = 500 /\ files' = files /\ objects' = objects)
       /\ (req[r].pc = "create" /\ req'[r].pc = "done" /\ req'[r].resp.status # 201)
            => (files' = files /\ ~KeyTaken(req[r].s3Key))]_vars

C6_Lifecycle ==
  [][\A f \in DOMAIN files :
       /\ (f \in DOMAIN files' /\ ~files[f].isActive) => ~files'[f].isActive
       /\ f \notin DOMAIN files'
            => (call'.op = "deleteById" /\ call'.fileId = f
                /\ call'.userId = files[f].userId)]_vars

\* C7: of the owner's DELETE /file/:id requests that reach markAsDeleted for one
\* file, at most one is answered 200; one that is answered 200 found the record
\* active and left it inactive; every other one the store answers is answered
\* 404 FILE_NOT_FOUND, and then exactly one 200 has been given and the record
\* is inactive.
C7_AtomicSoftDelete ==
  /\ [](\A f \in FileIds :
          /\ deletesOk[f] <= 1
          /\ deletesOk[f] = 1 => (f \in DOMAIN files /\ ~files[f].isActive))
  /\ [][\A r \in Reqs :
          (req[r].op = "delete" /\ req[r].pc = "mark" /\ req'[r].pc = "done")
          => \/ /\ req'[r].resp = R(500, "DELETE_ERROR",
                                    "Internal server error while deleting file")
                /\ files' = files
             \/ /\ req'[r].resp.status = 200
                /\ files[req[r].fileId].isActive
                /\ ~files'[req[r].fileId].isActive
                /\ deletesOk'[req[r].fileId] = 1
             \/ /\ req'[r].resp.status = 404
                /\ req'[r].resp.code = "FILE_NOT_FOUND"
                /\ ~files[req[r].fileId].isActive
                /\ files' = files
                /\ deletesOk[req[r].fileId] = 1]_vars

\* two deletes of the owner for the same file both passed the ownership lookup;
\* one has been answered 200, the other 404 by markAsDeleted
C7_Witness ==
  \E r1, r2 \in Reqs :
    /\ req[r1].pc = "done" /\ req[r1].op = "delete" /\ req[r1].resp.status = 200
    /\ req[r2].pc = "done" /\ req[r2].op = "delete"
    /\ req[r2].fileId = req[r1].fileId
    /\ req[r2].userId = req[r1].userId
    /\ req[r2].resp = R(404, "FILE_NOT_FOUND", "File not found or already deleted")
    /\ ~files[req[r1].fileId].isActive

\* C8: a record is created with downloadCount = 0; the count never decreases;
\* it always equals the number of GET /file/:id requests for the file answered
\* 200; a GET /file/:id answered otherwise leaves every count as it was.
C8_DownloadCount ==
  /\ [](\A f \in FileIds :
          IF f \in DOMAIN files
          THEN files[f].downloadCount = urlsIssued[f]
          ELSE urlsIssued[f] = 0)
  /\ [][/\ \A f \in DOMAIN files :
             f \in DOMAIN files' /\ files'[f].downloadCount >= files[f].downloadCount
        /\ \A f \in DOMAIN files' \ DOMAIN files : files'[f].downloadCount = 0
        /\ \A r \in Reqs :
             (req[r].pc # "done" /\ req'[r].pc = "done" /\ req'[r].op = "download")
             => IF req'[r].resp.status = 200
                THEN files'[req[r].fileId].downloadCount
                       = files[req[r].fileId].downloadCount + 1
                ELSE \A f \in DOMAIN files :
                       files'[f].downloadCount = files[f].downloadCount]_vars

\* two URLs have been issued for one file, whose count is 2, while another
\* download of it failed in between
C8_Witness ==
  \E r1, r2 \in Reqs :
    /\ req[r1].pc = "done" /\ req[r1].op = "download" /\ req[r1].resp.status = 200
    /\ files[req[r1].fileId].downloadCount = MaxDownloads
    /\ urlsIssued[req[r1].fileId] = MaxDownloads
    /\ req[r2].pc = "done" /\ req[r2].op = "download"
    /\ req[r2].fileId = req[r1].fileId
    /\ req[r2].resp.status # 200

\* C9: no two records have the same s3Key; an upload whose key is held by a
\* record changes no record and is answered 409 DUPLICATE_FILE (or 500 when the
\* metadata store is down).
C9_UniqueKeys ==
  /\ [](\A f, g \in DOMAIN files : f # g => files[f].s3Key # files[g].s3Key)
  /\ [][\A r \in Reqs :
          (/\ req[r].op = "upload" /\ req[r].pc = "create"
           /\ KeyTaken(req[r].s3Key)
           /\ req'[r].pc = "done")
          => /\ files' = files
             /\ \/ req'[r].resp = R(409, "DUPLICATE_FILE", "File already exists")
                \/ req'[r].resp.status = 500]_vars

\* C10: an upload answered 400 or 413 has written nothing to the object store
\* and nothing to the metadata store, and a registration answered
\* MISSING_FIELDS, INVALID_EMAIL or WEAK_PASSWORD has neither read nor written
\* the credential store.
C10_InvalidInputNoEffect ==
  \A r \in Reqs :
    /\ (req[r].pc = "done" /\ req[r].op = "upload" /\ req[r].resp.status \in {400, 413})
         => req[r].ops = {}
    /\ (/\ req[r].pc = "done" /\ req[r].op = "register"
        /\ req[r].resp.code \in {"MISSING_FIELDS", "INVALID_EMAIL", "WEAK_PASSWORD"})
         => req[r].ops = {}

\* C11: a login that carries an email and a password and is answered by the
\* credential store gets 401 INVALID_CREDENTIALS "Invalid email or password",
\* without a token, both when the email has no user record and when the email
\* is registered and the password is not the registered one.
C11_SameResponse ==
  [][\A r \in Reqs :
       (/\ req[r].pc = "idle"
        /\ req'[r].op = "login"
        /\ req'[r].email # <<>>
        /\ ~Falsy(req'[r].password)
        /\ "userRead" \in req'[r].ops
        /\ \A u \in FindByEmail(req'[r].email) :
             \/ req'[r].password.type # "string"
             \/ \A salt \in Salts :
                  u.passwordHash # HashPassword(req'[r].password, salt))
       => /\ req'[r].resp = R(401, "INVALID_CREDENTIALS", "Invalid email or password")
          /\ req'[r].body = ErrorBody(req'[r].resp)
          /\ "token" \notin DOMAIN req'[r].body]_vars

FieldNames(body) ==
  DOMAIN body
    \cup (IF "error" \in DOMAIN body THEN DOMAIN body.error ELSE {})
    \cup (IF "token" \in DOMAIN body THEN DOMAIN body.token ELSE {})

\* the stored hashes and the passwords clients send
SecretValues == {u.passwordHash : u \in users} \cup ({p.chars : p \in AuthPasswords} \ {<<>>})

\* C13: no response of register, login, getProfile or refresh, whatever its
\* status, has a field named passwordHash or password, at the top, in its error
\* object or in its token's payload, and the email it carries is no user's
\* password hash and no password.
C13_HashNeverLeaves ==
  \A r \in Reqs :
    (req[r].pc = "done" /\ req[r].op \in {"register", "login", "getProfile", "refresh"})
    => /\ FieldNames(req[r].body) \cap {"passwordHash", "password"} = {}
       /\ "email" \in DOMAIN req[r].body => req[r].body.email \notin SecretValues

\* a login has been answered 200 for a user whose hash is stored, and another
\* request for the same user has been answered 2xx as well
C13_Witness ==
  \E r1, r2 \in Reqs, u \in users :
    /\ req[r1].pc = "done" /\ req[r1].op = "login" /\ req[r1].resp.status = 200
    /\ req[r1].userId = u.id
    /\ Len(u.passwordHash) > 0
    /\ req[r2].pc = "done" /\ req[r2].op \in {"register", "getProfile", "refresh"}
    /\ req[r2].resp.status \in {200, 201}
    /\ req[r2].userId = u.id

\* C14: an authenticated upload with a filename the service stores and a body
\* of more than MaxFileSize bytes ends at once with 413 FILE_TOO_LARGE and writes
\* neither store; one with 1 <= n <= MaxFileSize bytes gets no 400 and no 413:
\* its object is written (or the object store fails), and the response is 201
\* with a record of size n unless the metadata store fails or reports the key
\* as taken.
C14_SizeBoundary ==
  [][\A r \in Reqs :
       /\ (/\ req[r].pc = "idle" /\ req'[r].op = "upload"
           /\ req'[r].userId # ""
           /\ req'[r].filename \in StoredFilenames)
          => IF req'[r].size > MaxFileSize
             THEN /\ req'[r].pc = "done"
                  /\ req'[r].resp.status = 413
                  /\ req'[r].resp.code = "FILE_TOO_LARGE"
                  /\ req'[r].ops = {}
                  /\ objects' = objects /\ files' = files
             ELSE req'[r].size >= 1
                  => \/ req'[r].pc = "create" /\ req'[r].s3Key \in objects'
                     \/ req'[r].resp.code = "STORAGE_ERROR"
       /\ (/\ req[r].op = "upload" /\ req[r].pc = "create" /\ req'[r].pc = "done"
           /\ req[r].filename \in StoredFilenames)
          => /\ req[r].size \in 1..MaxFileSize
             /\ \/ /\ req'[r].resp.status = 201
                   /\ req'[r].fileId \in DOMAIN files' \ DOMAIN files
                   /\ files'[req'[r].fileId].size = req[r].size
                \/ req'[r].resp.code \in {"UPLOAD_ERROR", "DUPLICATE_FILE"}]_vars

\* an upload of exactly MaxFileSize bytes has been answered 201 and its record
\* has that size; an authenticated upload of one byte more has been answered 413
C14_Witness ==
  \E r1, r2 \in Reqs :
    /\ req[r1].pc = "done" /\ req[r1].op = "upload" /\ req[r1].resp.status = 201
    /\ req[r1].size = MaxFileSize
    /\ files[req[r1].fileId].size = MaxFileSize
    /\ req[r2].pc = "done" /\ req[r2].op = "upload" /\ req[r2].userId # ""
    /\ req[r2].filename \in StoredFilenames
    /\ req[r2].size = MaxFileSize + 1
    /\ req[r2].resp.code = "FILE_TOO_LARGE"

\* C15: an authenticated upload with a filename the service stores and a body
\* of 0 bytes is answered 400 EMPTY_FILE "File cannot be empty".
C15_EmptyFile ==
  [][\A r \in Reqs :
       (/\ req[r].pc = "idle" /\ req'[r].op = "upload"
        /\ req'[r].userId # ""
        /\ req'[r].filename \in StoredFilenames
        /\ req'[r].size = 0)
       => /\ req'[r].pc = "done"
          /\ req'[r].resp = R(400, "EMPTY_FILE", "File cannot be empty")]_vars

\* C16: a generator called with an empty user id throws and yields no token;
\* called with any other id it yields a token, and for as long as less than the
\* token's ttl has passed since the call, verifyToken accepts the token and the
\* payload carries the id's string form and the generator's token type.
C16_RoundTrip ==
  issued.op # "none"
  => IF FalsyId(issued.userId)
     THEN ~issued.ok
     ELSE /\ issued.ok
          /\ ClockMs(now, subsec) - ClockMs(issued.at, issued.sub) < issued.ttl
             => /\ VerifyToken(issued.token, now).ok
                /\ issued.token.userId = issued.userId.str
                /\ issued.token.type = IF issued.op = "generateToken"
                                       THEN "access_token" ELSE "refresh_token"

\* the policy: a string of 6 to 128 characters with a letter and a digit
IsStrong(p) ==
  /\ p.type = "string"
  /\ Len(p.chars) >= 6 /\ Len(p.chars) <= 128
  /\ \E i \in 1..Len(p.chars) : p.chars[i] \in Letters
  /\ \E i \in 1..Len(p.chars) : p.chars[i] \in Digits

\* the messages of the rules a present password fails
FailedRules(p) ==
  IF p.type # "string" THEN {"Password must be a string"}
  ELSE (IF Len(p.chars) < 6 THEN {"Password must be at least 6 characters long"} ELSE {})
       \cup (IF Len(p.chars) > 128
             THEN {"Password must be less than 128 characters long"} ELSE {})
       \cup (IF \A i \in 1..Len(p.chars) : p.chars[i] \notin Letters
             THEN {"Password must contain at least one letter"} ELSE {})
       \cup (IF \A i \in 1..Len(p.chars) : p.chars[i] \notin Digits
             THEN {"Password must contain at least one number"} ELSE {})

\* the response is 400 WEAK_PASSWORD and its details list each failed rule once
WeakPasswordResponse(slot) ==
  /\ slot.pc = "done"
  /\ slot.resp = R(400, "WEAK_PASSWORD", "Password does not meet requirements")
  /\ {slot.body.error.details[i] : i \in 1..Len(slot.body.error.details)}
       = FailedRules(slot.password)
  /\ Len(slot.body.error.details) = Cardinality(FailedRules(slot.password))

PageLength(n, limit, skip) ==
  IF skip >= n THEN 0 ELSE IF n - skip < limit THEN n - skip ELSE limit

C19_OwnerScopedList ==
  /\ [](\A r \in Reqs :
          (req[r].op = "list" /\ req[r].resp.status = 200)
          => \A i \in 1..Len(req[r].body.files) :
               /\ req[r].body.files[i].userId = req[r].userId
               /\ req[r].body.files[i].isActive)
  /\ [][\A r \in Reqs :
          LET mine == {f \in DOMAIN files :
                         files[f].userId = req'[r].userId /\ files[f].isActive}
          IN  /\ (/\ req[r].pc = "idle" /\ req'[r].op = "list"
                  /\ req'[r].userId # "" /\ req'[r].limit > ListLimitMax)
                   => /\ req'[r].pc = "done"
                      /\ req'[r].resp = R(400, "LIMIT_TOO_HIGH", "Limit cannot exceed 100")
                      /\ req'[r].body = ErrorBody(req'[r].resp)
                      /\ "files" \notin DOMAIN req'[r].body
              /\ (req[r].pc = "idle" /\ req'[r].op = "list" /\ req'[r].pc = "count")
                   => \A i \in 1..Len(req'[r].body.files) :
                        /\ req'[r].body.files[i].fileId \in mine
                        /\ req'[r].body.files[i].userId = req'[r].userId
                        /\ req'[r].body.files[i].isActive
              /\ (req[r].op = "list" /\ req[r].pc = "count" /\ req'[r].pc = "size")
                   => req'[r].body.totalCount = Cardinality(mine)
              /\ (req[r].op = "list" /\ req[r].pc = "size" /\ req'[r].resp.status = 200)
                   => /\ req'[r].body.summary.totalFiles = req[r].body.totalCount
                      /\ req'[r].body.summary.totalSize = SumSizes(mine)]_vars

\* a list response holds one file and counts one, of one size, while the store
\* holds a second file, another user's or an inactive one, and a request with
\* limit = 101 would be refused
C19_Witness ==
  \E r \in Reqs, g \in DOMAIN files :
    /\ req[r].pc = "done" /\ req[r].op = "list" /\ req[r].resp.status = 200
    /\ req[r].limit = DefaultLimit /\ req[r].skip = 0
    /\ Len(req[r].body.files) = 1
    /\ req[r].body.files[1].fileId # g
    /\ files[req[r].body.files[1].fileId].isActive
    /\ files[g].userId # req[r].userId /\ files[g].isActive
    /\ req[r].body.summary.totalFiles = 1
    /\ req[r].body.summary.totalSize = MaxFileSize

\* C20: removing the object never ends a delete: whether it succeeds or fails,
\* the handler goes on to markAsDeleted without a response.  After a failed
\* removal the request is answered 200 "File deleted successfully" and the
\* record is set inactive, the object store staying as it is; the only
\* other answers are those a delete gets after a successful removal as well:
\* 500 DELETE_ERROR when the metadata store fails, and 404 FILE_NOT_FOUND when
\* another delete of the owner has set the record inactive in the meantime.
C20_BestEffortObjectDelete ==
  [][\A r \in Reqs :
       /\ (req[r].op = "delete" /\ req[r].pc = "s3del" /\ req'[r] # req[r])
            => /\ req'[r].pc = "mark"
               /\ req'[r].resp = NoResp
               /\ files' = files
       /\ (/\ req[r].op = "delete" /\ req[r].pc = "mark" /\ req'[r].pc = "done"
           /\ "objDeleteFailed" \in req[r].ops)
            => \/ /\ files[req[r].fileId].isActive
                  /\ req'[r].resp = R(200, "", "File deleted successfully")
                  /\ ~files'[req[r].fileId].isActive
                  /\ objects' = objects
               \/ /\ req'[r].resp = R(500, "DELETE_ERROR",
                                      "Internal server error while deleting file")
                  /\ files' = files
               \/ /\ ~files[req[r].fileId].isActive
                  /\ deletesOk[req[r].fileId] >= 1
                  /\ req'[r].resp = R(404, "FILE_NOT_FOUND",
                                      "File not found or already deleted")
                  /\ files' = files]_vars

\* the owner's delete of an active file has been answered 200 although the
\* object removal failed: the record is inactive and the object is still stored
C20_Witness ==
  \E r \in Reqs :
    /\ req[r].pc = "done" /\ req[r].op = "delete"
    /\ "objDeleteFailed" \in req[r].ops
    /\ req[r].resp = R(200, "", "File deleted successfully")
    /\ files[req[r].fileId].userId = req[r].userId
    /\ ~files[req[r].fileId].isActive
    /\ files[req[r].fileId].s3Key \in objects

\* C21: a getDownloadUrl of the owner of an active file that reaches the
\* existence check or the URL generation while the object is absent from the
\* object store is answered 404 FILE_NOT_IN_STORAGE; no URL is issued and no
\* downloadCount changes.
C21_ObjectAbsent ==
  [][\A r \in Reqs :
       (/\ req[r].op = "download" /\ req[r].pc \in {"head", "presign"}
        /\ req'[r] # req[r]
        /\ files[req[r].fileId].isActive
        /\ files[req[r].fileId].userId = req[r].userId
        /\ req[r].s3Key \notin objects)
       => /\ req'[r].pc = "done"
          /\ req'[r].resp = R(404, "FILE_NOT_IN_STORAGE", "File not found in storage")
          /\ files' = files
          /\ urlsIssued' = urlsIssued]_vars

\* C22: an authenticated GET /file/:id, DELETE /file/:id or
\* GET /local/:userId/:filename for a resource of another user is answered like
\* one for a resource that does not exist: 404 FILE_NOT_FOUND, never 403 or any
\* other response.
C22_ForeignAsMissing ==
  \A r \in Reqs :
    (/\ req[r].pc = "done" /\ req[r].userId # ""
     /\ \/ /\ req[r].op \in {"download", "delete"}
           /\ req[r].fileId \in DOMAIN files
           /\ files[req[r].fileId].userId # req[r].userId
        \/ /\ req[r].op = "local"
           /\ PathJoin(req[r].local.userId, req[r].local.filename).userId # req[r].userId)
    => /\ req[r].resp.status = 404
       /\ req[r].resp.code = "FILE_NOT_FOUND"

\* C23: every error response has the envelope {error: {...}} with a code, a
\* message, the request path, the request method and a timestamp.
C23_ErrorEnvelope ==
  \A r \in Reqs :
    (req[r].pc = "done" /\ req[r].resp.status >= 400)
    => /\ "error" \in DOMAIN req[r].body
       /\ {"code", "message", "path", "method", "timestamp"} \subseteq DOMAIN req[r].body.error

\* the token of an Authorization value verifies at time t
Verifies(authorization, t) ==
  /\ authorization.kind \in {"bearer", "raw"}
  /\ VerifyToken(authorization.token, t).ok

\* C24: authenticateToken answers 401 and does not call the handler unless the
\* token verifies: MISSING_AUTH_HEADER without an Authorization header,
\* MISSING_TOKEN for an empty header and for "Bearer " without a token,
\* INVALID_TOKEN for a string that is no token and for a wrong signature,
\* TOKEN_EXPIRED for an expired token; when the token verifies, req.user.userId
\* is the token's userId, for "<token>" as for "Bearer <token>".
C24_AuthenticateToken ==
  gate.endpoint # "none"
  => LET h == gate.header
     IN  /\ ~Verifies(h, gate.at) => (~gate.entered /\ gate.resp.status = 401)
         /\ h.kind = "absent" => gate.resp.code = "MISSING_AUTH_HEADER"
         /\ h.kind \in {"empty", "bearerOnly"} => gate.resp.code = "MISSING_TOKEN"
         /\ (\/ h.kind = "malformed"
             \/ h.kind \in {"bearer", "raw"} /\ h.token.sig # JwtSecret)
              => gate.resp.code = "INVALID_TOKEN"
         /\ (/\ h.kind \in {"bearer", "raw"}
             /\ h.token.sig = JwtSecret
             /\ (h.token.nbf = NoNbf \/ gate.at >= h.token.nbf)
             /\ gate.at >= h.token.exp)
              => gate.resp.code = "TOKEN_EXPIRED"
         /\ Verifies(h, gate.at)
              => (gate.entered /\ gate.resp = NoResp /\ gate.user = h.token.userId)

\* C25: a request to a routed endpoint whose handler has not responded when
\* the timeout elapses is eventually answered 408 REQUEST_TIMEOUT.
C25_TimeoutAnswered ==
  \A r \in Reqs :
    (req[r].op \notin {"none", "unrouted"} /\ req[r].elapsed)
      ~> (req[r].resp = R(408, "REQUEST_TIMEOUT", "Request timeout"))

\* the operation of the request in slot r that takes the step
StepOp(r) == IF req[r].op = "none" THEN req'[r].op ELSE req[r].op

C27_ConcurrentRegister ==
  /\ [](\A u, v \in users : u.email = v.email => u = v)
  /\ [](\A r1, r2 \in Reqs :
          (/\ r1 # r2
           /\ req[r1].op = "register" /\ req[r2].op = "register"
           /\ ToLowerCase(req[r1].email) = ToLowerCase(req[r2].email))
          => ~(req[r1].resp.status = 201 /\ req[r2].resp.status = 201))
  /\ [](\A r \in Reqs :
          req[r].op = "register"
          => /\ req[r].resp.status = 201
                  => \E u \in users : /\ u.email = ToLowerCase(req[r].email)
                                      /\ u.id = req[r].userId
             /\ req[r].resp.code = "EMAIL_EXISTS"
                  => /\ req[r].resp.status = 409
                     /\ \E u \in users : u.email = ToLowerCase(req[r].email))
  /\ [][\A r \in Reqs :
          (req[r].op = "register" /\ req[r].pc = "save" /\ req'[r].pc = "done")
          => \/ /\ req'[r].resp.code = "REGISTRATION_ERROR"
                /\ users' = users
             \/ /\ \E u \in users : u.email = ToLowerCase(req[r].email)
                /\ req'[r].resp = R(409, "EMAIL_EXISTS", "User with this email already exists")
                /\ users' = users
             \/ /\ \A u \in users : u.email # ToLowerCase(req[r].email)
                /\ req'[r].resp.status = 201
                /\ Cardinality(users') = Cardinality(users) + 1]_vars

\* two registers with two spellings of one email both passed the findByEmail
\* check; one has been answered 201, the other 409 by create
C27_Witness ==
  \E r1, r2 \in Reqs :
    /\ req[r1].op = "register" /\ req[r1].pc = "done" /\ req[r1].resp.status = 201
    /\ req[r2].op = "register" /\ req[r2].pc = "done"
    /\ req[r2].resp.code = "EMAIL_EXISTS"
    /\ "userWriteRefused" \in req[r2].ops
    /\ req[r1].email # req[r2].email
    /\ ToLowerCase(req[r1].email) = ToLowerCase(req[r2].email)
    /\ Cardinality({u \in users : u.email = ToLowerCase(req[r1].email)}) = 1

\* C28: once a record has isActive = false, its downloadCount never changes
\* again and no download URL is issued for it, also for a getDownloadUrl that
\* looked the file up before the delete.
C28_DeleteWins ==
  [][\A f \in DOMAIN files :
       ~files[f].isActive
       => /\ files'[f].downloadCount = files[f].downloadCount
          /\ urlsIssued'[f] = urlsIssued[f]]_vars

\* C29: in every state, the intermediate states of deleteFile and the states
\* after a deleteFile whose metadata update failed included, every record with
\* isActive = true has its object in the object store under its s3Key.
C29_ActiveBacked ==
  \A f \in DOMAIN files : files[f].isActive => files[f].s3Key \in objects

\* C30: every record that upload creates has userId equal to the userId claim
\* of the token that authenticated the request, whatever userId the query
\* carried, and the owner part of its s3Key is that same userId; and in every
\* record the owner part of s3Key equals userId.
C30_OwnerIsSubject ==
  [][/\ \A r \in Reqs :
          (req[r].op = "upload" /\ req[r].pc = "create" /\ req'[r].pc = "done"
             /\ req'[r].resp.status = 201)
          => /\ req'[r].fileId \in DOMAIN files' \ DOMAIN files
             /\ files'[req'[r].fileId].userId = req[r].subject
             /\ files'[req'[r].fileId].s3Key.userId = req[r].subject
             /\ req[r].subject \in UserIds
     /\ \A f \in DOMAIN files' : files'[f].s3Key.userId = files'[f].userId]_vars

\* two users have each uploaded a file and both records are stored
C30_Witness ==
  \E r1, r2 \in Reqs :
    /\ req[r1].op = "upload" /\ req[r1].resp.status = 201
    /\ req[r2].op = "upload" /\ req[r2].resp.status = 201
    /\ req[r1].subject = "u1" /\ req[r2].subject = "u2"
    /\ files[req[r1].fileId].userId = "u1" /\ files[req[r2].fileId].userId = "u2"

====
